---- MODULE Spec2Model ----
(***************************************************************************)
(* Thermador UCVM36XS -> Cloudline A6 fan translator.                      *)
(*                                                                         *)
(* Two sketches are modelled side by side, selected by `variant`:          *)
(*   "ino" : Arduino-Translator-For-Thermador-UCVM36XS-to-CLOUDLINE-A6-    *)
(*           Fan.ino (5 levels 0..4, manualMode, debounce 100 ms)          *)
(*   "p0"  : unnamed/part_000 (4 levels 0..3, no manual mode, debounce     *)
(*           50 ms)                                                        *)
(* The state variables carry the names of the .ino globals; part_000 calls *)
(* them currentSpeedLevel, currentFanSpeed, lastSpeedChange,               *)
(* tachPulseCount, currentRPM, lastRPMUpdate, lastPulseCount.              *)
(*                                                                         *)
(* Floats: normalized speeds are kept in percent (0.25 -> 25) and the RPM  *)
(* as the integer 30 * pulses; the float32 duty computation               *)
(* (uint16_t)(320 * (0.20 + speed * 0.80)) gives 128, 192, 256, 320 and    *)
(* 140, 217, 320 for the two tables, which is what the exact integer       *)
(* truncation used below gives.                                            *)
(***************************************************************************)
EXTENDS Integers, Sequences, FiniteSets, TLC

VARIABLES
  variant,      \* which sketch runs
  CONTROL_MODE, \* part_000: the control mode the sketch was built with
  now,          \* millis()
  pins,         \* the speed lines that are asserted (read LOW)
  analogValue,  \* part_000: what analogRead(THERMADOR_ANALOG_PIN) returns
  pc,           \* position of the control loop
  testIdx,      \* runTest / runSpeedTest: index of the next step
  speedLevel,   \* speedLevel / currentSpeedLevel
  currentSpeed, \* currentSpeed / currentFanSpeed, in percent
  OCR1A,        \* timer 1 compare register (PWM duty)
  manualMode,   \* manualMode (.ino only; stays FALSE in part_000)
  lastUpdate,   \* static lastUpdate of loop()
  lastChange,   \* lastChange / lastSpeedChange
  tachCount,    \* tachCount / tachPulseCount (volatile, written by the ISR)
  lastCount,    \* static lastCount / lastPulseCount of updateRPM()
  lastRPMTime,  \* static lastRPMTime / lastRPMUpdate of updateRPM()
  rpm,          \* rpm / currentRPM
  frozen,       \* history: last operator-issued level, -1 when none is in force
  resumed,      \* history: an auto command ended Manual and no differing sample was seen yet
  scen,         \* history: number of samples since power-up that matched Scenario, -1 once off it
  lastCmd,      \* history: the speed command handled since the last loop() pass, "none" otherwise
  sumDeltas     \* history: sum of the pulse deltas updateRPM() has used for its estimates

vars == <<variant, CONTROL_MODE, now, pins, analogValue, pc, testIdx, speedLevel, currentSpeed, OCR1A,
          manualMode, lastUpdate, lastChange, tachCount, lastCount,
          lastRPMTime, rpm, frozen, resumed, scen, lastCmd, sumDeltas>>

(***************************************************************************)
(* Bounds of the model                                                     *)
(***************************************************************************)
\* Spec: the environment lets the clock run up to MaxTime (delay() may pass it)
MaxTime == 310
\* a test command is offered only while the clock is at most MaxTestStart
MaxTestStart == 51
\* SpecRpm: the environment lets the clock run up to MaxTimeRpm
MaxTimeRpm == 2100
\* SpecRate: the environment lets the clock run up to MaxTimeRate
MaxTimeRate == 3000
\* SpecRate: the tachometer delivers EdgesPerWindow evenly spaced edges per RPM window
EdgesPerWindow == 4
\* Spec, SpecRpm: the tachometer delivers at most MaxTach edges
MaxTach == 2
\* SpecSample: readings up to MaxAnalogExcess below 0 and above ADC_MAX are offered
MaxAnalogExcess == 3
\* SpecLevels: levels up to MaxLevelExcess below 0 and above the top level are applied
MaxLevelExcess == 2
\* SpecLive: the environment lets the clock run up to MaxTimeLive
MaxTimeLive == 420
\* SpecLive: the lines may change while the clock is at most MaxPinTime
MaxPinTime == 102
\* SpecWrap: the clock starts WrapStart ms before it wraps
WrapStart == 60
\* SpecWrap: the clock moves in tick-sized steps up to MaxTimeWrap ms past the wrap
MaxTimeWrap == 110
\* SpecWrap: and in window-sized steps up to MaxTimeWrapRpm ms past the wrap
MaxTimeWrapRpm == 1100
\* SpecWrap: the pulse counter starts WrapEdges short of its wrap and the tachometer
\* delivers twice as many edges
WrapEdges == 2
\* width of unsigned long in the model (32 on the AVR)
ULongBits == 16

ULongMod == 2 ^ ULongBits

\* USub in unbounded integers
USubNoWrap(a, b) == a - b

\* unsigned subtraction a - b
USub(a, b) == (a - b + ULongMod) % ULongMod

\* unsigned addition a + b
UAdd(a, b) == (a + b) % ULongMod

(***************************************************************************)
(* Program constants                                                       *)
(***************************************************************************)
\* ICR1: PWM period (TOP)
ICR1 == 320
\* 0.20: minimum duty, in percent
MinDutyPct == 20
\* loop(): inputs are checked when more than 50 ms passed
UPDATE_MS == 50
\* .ino loop(): a change is accepted when more than 100 ms passed
DEBOUNCE_MS == 100
\* part_000: debounceDelay
debounceDelay == 50
\* updateRPM(): window
RPM_WINDOW_MS == 1000

\* FAN_SPEEDS[] of the .ino, in percent, indexed from 0
FAN_SPEEDS == [i \in 0..4 |-> 25 * i]

\* FAN_OFF, FAN_LOW, FAN_MEDIUM, FAN_HIGH of part_000, in percent
FAN_OFF == 0
FAN_LOW == 30
FAN_MEDIUM == 60
FAN_HIGH == 100

\* the largest reading of the 10-bit converter, "(0-1023)"
ADC_MAX == 1023

\* CONTROL_MODE_DIGITAL, CONTROL_MODE_ANALOG of part_000
CONTROL_MODE_DIGITAL == 1
CONTROL_MODE_ANALOG == 2

\* the speed lines each sketch reads: SPEED1..4_PIN / THERMADOR_SPEED1..3_PIN
Lines(v) == IF v = "ino" THEN 1..4 ELSE 1..3

\* highest level of each sketch
MaxLevel(v) == IF v = "ino" THEN 4 ELSE 3

(***************************************************************************)
(* Pure functions                                                          *)
(***************************************************************************)
\* constrain(x, lo, hi)
constrain(x, lo, hi) == IF x < lo THEN lo ELSE IF x > hi THEN hi ELSE x

\* DutyOf without the branch for speed 0
DutyOfNoOff(speed) ==
  LET s == constrain(speed, 0, 100)
  IN (ICR1 * (MinDutyPct * 100 + s * (100 - MinDutyPct))) \div 10000

\* the compare value setFanSpeed / setCloudlineSpeed writes for a speed in percent
DutyOf(speed) ==
  LET s == constrain(speed, 0, 100)
  IN IF s = 0 THEN 0
     ELSE (ICR1 * (MinDutyPct * 100 + s * (100 - MinDutyPct))) \div 10000

\* readSpeedLevel with the lines tested from the lowest up
readSpeedLevelLowestWins(p) ==
  IF 1 \in p THEN 1
  ELSE IF 2 \in p THEN 2
  ELSE IF 3 \in p THEN 3
  ELSE IF 4 \in p THEN 4
  ELSE 0

\* readSpeedLevel() of the .ino: the highest asserted line wins
readSpeedLevel(p) ==
  IF 4 \in p THEN 4
  ELSE IF 3 \in p THEN 3
  ELSE IF 2 \in p THEN 2
  ELSE IF 1 \in p THEN 1
  ELSE 0

\* readThermadorSpeed with the levels counted from 1
readThermadorSpeedFromOne(p) ==
  IF 3 \in p THEN 4
  ELSE IF 2 \in p THEN 3
  ELSE IF 1 \in p THEN 2
  ELSE 1

\* readThermadorSpeed() of part_000, CONTROL_MODE_DIGITAL
readThermadorSpeed(p) ==
  IF 3 \in p THEN 3
  ELSE IF 2 \in p THEN 2
  ELSE IF 1 \in p THEN 1
  ELSE 0

\* readThermadorSpeedAnalog with <= for <
readThermadorSpeedAnalogInclusive(a) ==
  IF a <= 100 THEN 0
  ELSE IF a <= 300 THEN 1
  ELSE IF a <= 600 THEN 2
  ELSE 3

\* readThermadorSpeed() of part_000, CONTROL_MODE_ANALOG: the level of a reading
readThermadorSpeedAnalog(a) ==
  IF a < 100 THEN 0
  ELSE IF a < 300 THEN 1
  ELSE IF a < 600 THEN 2
  ELSE 3

\* TargetSpeed with the cases of levels 2 and 3 exchanged
TargetSpeedSwapped(level) ==
  CASE level = 0 -> FAN_OFF
    [] level = 1 -> FAN_LOW
    [] level = 2 -> FAN_HIGH
    [] level = 3 -> FAN_MEDIUM
    [] OTHER -> FAN_OFF

\* the target speed updateCloudlineSpeed() of part_000 picks for a level
TargetSpeed(level) ==
  CASE level = 0 -> FAN_OFF
    [] level = 1 -> FAN_LOW
    [] level = 2 -> FAN_MEDIUM
    [] level = 3 -> FAN_HIGH
    [] OTHER -> FAN_OFF

\* the level the sketch samples from the lines
RawLevel ==
  IF variant = "ino" THEN readSpeedLevel(pins)
  ELSE IF CONTROL_MODE = CONTROL_MODE_DIGITAL THEN readThermadorSpeed(pins)
  ELSE readThermadorSpeedAnalog(analogValue)

\* the normalized speed (percent) the sketch maps a level to
SpeedOf(v, level) == IF v = "ino" THEN FAN_SPEEDS[level] ELSE TargetSpeed(level)

\* Debounced with the dwell test left out
DebouncedAlways(t, last, interval) == TRUE

\* Debounced with the dwell test never passing
DebouncedNever(t, last, interval) == FALSE

\* Debounced with the dwell time tripled
DebouncedSlow(t, last, interval) == USub(t, last) > 3 * interval

\* the dwell test of loop(): more than interval ms since the change recorded in last
Debounced(t, last, interval) == USub(t, last) > interval

\* the polling test of loop(): more than UPDATE_MS since the last pass over the inputs
UpdateDue(t, last) == USub(t, last) > UPDATE_MS

\* WindowElapsed with > for >=
WindowElapsedStrict(t, last) == USub(t, last) > RPM_WINDOW_MS

\* the window test of updateRPM()
WindowElapsed(t, last) == USub(t, last) >= RPM_WINDOW_MS

(***************************************************************************)
(* Writes of the PWM state                                                 *)
(***************************************************************************)
\* setFanSpeed(speed) of the .ino
setFanSpeed(speed) ==
  /\ currentSpeed' = constrain(speed, 0, 100)
  /\ OCR1A' = DutyOf(speed)

\* setCloudlineSpeed(speed) of part_000
setCloudlineSpeed(speed) ==
  /\ currentSpeed' = constrain(speed, 0, 100)
  /\ OCR1A' = DutyOf(speed)

\* updateCloudlineSpeed called before the new level is stored
updateCloudlineSpeedStale(level) == setCloudlineSpeed(TargetSpeed(speedLevel))

\* updateCloudlineSpeed() of part_000, for the level just stored
updateCloudlineSpeed(level) == setCloudlineSpeed(TargetSpeed(level))

(***************************************************************************)
(* Environment inputs                                                      *)
(***************************************************************************)
\* Spec: the clock advances the environment offers between two loop iterations
Deltas == {50, 51}

\* SpecRpm: the clock advances offered, one ms short of the RPM window and the window
RpmDeltas == {999, 1000}

\* the line patterns the range hood drives: none, one line, or all lines at once
InputPatterns(v) == {{}, {1}, {2}, {3}, {MaxLevel(v)}, Lines(v)}

\* SpecSample: the readings offered on THERMADOR_ANALOG_PIN
AnalogReadings == (0 - MaxAnalogExcess)..(ADC_MAX + MaxAnalogExcess)

\* SpecSample: the reading moves by one count at a time
AnalogSteps(a) == {a - 1, a + 1} \cap AnalogReadings

\* SpecSample: the clock advance offered, one ms more than the longer dwell time
SampleDeltas == {DEBOUNCE_MS + 1}

\* SpecLevels: the levels applied to the level-to-duty mapping of sketch v
LevelArgs(v) == (0 - MaxLevelExcess)..(MaxLevel(v) + MaxLevelExcess)

\* what a read of FAN_SPEEDS[] outside the array may return: the float stored next to
\* the table is not defined by the sketch; in percent, below, inside and above 0..100
UndefinedSpeeds == {-1, 101} \cup {10 * k : k \in 0..10}

\* the values FAN_SPEEDS[i] may yield
IndexedSpeeds(i) == IF i \in DOMAIN FAN_SPEEDS THEN {FAN_SPEEDS[i]} ELSE UndefinedSpeeds

\* SpecWrap: the long clock advance offered: with a step of Deltas it comes to either
\* side of the RPM window
WindowDelta == RPM_WINDOW_MS - UPDATE_MS - 1

\* SpecWrap: the value of the clock and of the pulse counter at the start
ClockStart == ULongMod - WrapStart
TachStart == ULongMod - WrapEdges

\* SpecWrap: the count or time x stands for, counted from the start of the cycle the
\* run begins in; the run spans less than half a cycle, so the low half is past the wrap
Unwrapped(x) == IF x < ULongMod \div 2 THEN x + ULongMod ELSE x

\* the command vocabulary of handleCommands (.ino); "none" is Serial.available() = 0
Commands == {"none", "off", "low", "medium", "high", "max", "auto",
             "status", "test", "help", "other"}

\* the command vocabulary of handleSerialCommands (part_000)
SerialCommands == {"none", "off", "low", "medium", "high",
                   "status", "test", "help", "other"}

\* the raw sample sequence of the sustained-input scenario: off, off, low, low, low, medium
Scenario == <<0, 0, 1, 1, 1, 2>>

(***************************************************************************)
(* History variables                                                       *)
(***************************************************************************)
\* scen after a sample of raw level r
ScenAfterSample(r) ==
  IF scen >= 0 /\ scen < Len(Scenario) /\ r = Scenario[scen + 1]
  THEN scen + 1 ELSE -1

\* resumed after a sample of raw level r taken while the level was l
ResumedAfterSample(r, l) == resumed /\ r = l

(***************************************************************************)
(* Initial state: the globals' initialisers and setup()                    *)
(***************************************************************************)
\* the state setup() leaves, at the first call of loop()
setup ==
  /\ now = 0
  /\ pc = "loop"
  /\ testIdx = 0
  /\ speedLevel = 0
  /\ currentSpeed = 0
  /\ OCR1A = 0
  /\ manualMode = FALSE
  /\ lastUpdate = 0
  /\ lastChange = 0
  /\ tachCount = 0
  /\ lastCount = 0
  /\ lastRPMTime = 0
  /\ rpm = 0
  /\ frozen = -1
  /\ resumed = FALSE
  /\ scen = IF variant = "ino" THEN 0 ELSE -1
  /\ lastCmd = "none"
  /\ sumDeltas = 0

\* either sketch as it is in the repository (part_000 built with CONTROL_MODE_DIGITAL),
\* the lines in any of the patterns the range hood drives
Init ==
  /\ variant \in {"ino", "p0"}
  /\ CONTROL_MODE = CONTROL_MODE_DIGITAL
  /\ pins \in InputPatterns(variant)
  /\ analogValue = 0
  /\ setup

(***************************************************************************)
(* The control loop of the .ino                                            *)
(***************************************************************************)
\* loop(), lines 56-70 up to the call of updateRPM()
loop ==
  /\ variant = "ino"
  /\ pc = "loop"
  /\ IF UpdateDue(now, lastUpdate) /\ ~manualMode
     THEN LET newLevel == readSpeedLevel(pins)
          IN /\ lastUpdate' = now
             /\ IF newLevel # speedLevel /\ Debounced(now, lastChange, DEBOUNCE_MS)
                THEN /\ speedLevel' = newLevel
                     /\ setFanSpeed(FAN_SPEEDS[newLevel])
                     /\ lastChange' = now
                ELSE UNCHANGED <<speedLevel, currentSpeed, OCR1A, lastChange>>
             /\ pc' = "updateRPM"
             /\ scen' = ScenAfterSample(newLevel)
             /\ resumed' = ResumedAfterSample(newLevel, speedLevel)
     ELSE /\ pc' = "handleCommands"
          /\ UNCHANGED <<lastUpdate, speedLevel, currentSpeed, OCR1A, lastChange,
                         scen, resumed>>
  /\ lastCmd' = "none"
  /\ UNCHANGED <<variant, CONTROL_MODE, analogValue, now, pins, testIdx, manualMode, tachCount, lastCount,
                 lastRPMTime, rpm, frozen, sumDeltas>>

\* updateRPM(): the window test, the read of tachCount and the estimate.
\* tachCount is four bytes, read with interrupts enabled; below 256 counts only its
\* low byte changes, so a read cut by the ISR returns the old or the new count, and
\* both orders of tachISR and this step are steps of the model.
updateRPM ==
  /\ pc = "updateRPM"
  /\ IF WindowElapsed(now, lastRPMTime)
     THEN /\ rpm' = (USub(tachCount, lastCount) * 60) \div 2
          /\ pc' = "rpmStore"
          /\ sumDeltas' = UAdd(sumDeltas, USub(tachCount, lastCount))
     ELSE /\ pc' = "handleCommands"
          /\ UNCHANGED <<rpm, sumDeltas>>
  /\ UNCHANGED <<variant, CONTROL_MODE, analogValue, now, pins, testIdx, speedLevel, currentSpeed, OCR1A,
                 manualMode, lastUpdate, lastChange, tachCount, lastCount,
                 lastRPMTime, frozen, resumed, scen, lastCmd>>

\* updateRPMStore that restarts the pulse counter with each window
updateRPMStoreReset ==
  /\ pc = "rpmStore"
  /\ tachCount' = 0
  /\ lastCount' = 0
  /\ lastRPMTime' = now
  /\ pc' = "handleCommands"
  /\ UNCHANGED <<variant, CONTROL_MODE, analogValue, now, pins, testIdx, speedLevel,
                 currentSpeed, OCR1A, manualMode, lastUpdate, lastChange, rpm,
                 frozen, resumed, scen, lastCmd, sumDeltas>>

\* updateRPM(): the second read of tachCount and the new window start
updateRPMStore ==
  /\ pc = "rpmStore"
  /\ lastCount' = tachCount
  /\ lastRPMTime' = now
  /\ pc' = "handleCommands"
  /\ UNCHANGED <<variant, CONTROL_MODE, analogValue, now, pins, testIdx, speedLevel, currentSpeed, OCR1A,
                 manualMode, lastUpdate, lastChange, tachCount, rpm,
                 frozen, resumed, scen, lastCmd, sumDeltas>>

\* CommandLevel with "high" and "max" both mapped to the top level
CommandLevelHighIsMax(cmd) ==
  CASE cmd = "off" -> 0
    [] cmd = "low" -> 1
    [] cmd = "medium" -> 2
    [] cmd = "high" -> 4
    [] cmd = "max" -> 4
    [] OTHER -> -1

\* the level an explicit speed command of the .ino sets, -1 for the other commands
CommandLevel(cmd) ==
  CASE cmd = "off" -> 0
    [] cmd = "low" -> 1
    [] cmd = "medium" -> 2
    [] cmd = "high" -> 3
    [] cmd = "max" -> 4
    [] OTHER -> -1

\* handleCommands() of the .ino, for the line read from Serial, trimmed and in lower
\* case; printStatus() before it and updateLED() after it write none of the variables
handleCommands(cmd) ==
  /\ variant = "ino"
  /\ pc = "handleCommands"
  /\ IF CommandLevel(cmd) >= 0
     THEN /\ speedLevel' = CommandLevel(cmd)
          /\ setFanSpeed(FAN_SPEEDS[CommandLevel(cmd)])
          /\ manualMode' = TRUE
          /\ pc' = "loop"
          /\ frozen' = CommandLevel(cmd)
          /\ resumed' = FALSE
          /\ scen' = -1
          /\ UNCHANGED testIdx
     ELSE IF cmd = "auto"
     THEN /\ manualMode' = FALSE
          /\ pc' = "loop"
          /\ frozen' = -1
          /\ resumed' = manualMode
          /\ scen' = -1
          /\ UNCHANGED <<speedLevel, currentSpeed, OCR1A, testIdx>>
     ELSE IF cmd = "test"
     THEN /\ now <= MaxTestStart
          /\ pc' = "runTest"
          /\ testIdx' = 0
          /\ resumed' = FALSE
          /\ scen' = -1
          /\ UNCHANGED <<speedLevel, currentSpeed, OCR1A, manualMode, frozen>>
     ELSE /\ pc' = "loop"
          /\ scen' = IF cmd = "none" THEN scen ELSE -1
          /\ UNCHANGED <<speedLevel, currentSpeed, OCR1A, manualMode, testIdx,
                         frozen, resumed>>
  /\ lastCmd' = IF CommandLevel(cmd) >= 0 THEN cmd
                ELSE IF cmd \in {"auto", "test"} THEN "none" ELSE lastCmd
  /\ UNCHANGED <<variant, CONTROL_MODE, analogValue, now, pins, lastUpdate, lastChange, tachCount, lastCount,
                 lastRPMTime, rpm, sumDeltas>>

\* runTest without the final speedLevel = 0
runTestKeepsLevel ==
  /\ variant = "ino"
  /\ pc = "runTest"
  /\ IF testIdx <= 4
     THEN /\ setFanSpeed(FAN_SPEEDS[testIdx])
          /\ now' = UAdd(now, 2000)
          /\ testIdx' = testIdx + 1
          /\ UNCHANGED <<pc, speedLevel, frozen>>
     ELSE /\ setFanSpeed(0)
          /\ pc' = "loop"
          /\ testIdx' = 0
          /\ UNCHANGED <<now, speedLevel, frozen>>
  /\ UNCHANGED <<variant, CONTROL_MODE, analogValue, pins, manualMode, lastUpdate,
                 lastChange, tachCount, lastCount, lastRPMTime, rpm, resumed, scen,
                 lastCmd, sumDeltas>>

\* runTest() of the .ino: one round of the for loop, or the lines after it
runTest ==
  /\ variant = "ino"
  /\ pc = "runTest"
  /\ IF testIdx <= 4
     THEN /\ setFanSpeed(FAN_SPEEDS[testIdx])
          /\ now' = UAdd(now, 2000)
          /\ testIdx' = testIdx + 1
          /\ UNCHANGED <<pc, speedLevel, frozen>>
     ELSE /\ setFanSpeed(0)
          /\ speedLevel' = 0
          /\ pc' = "loop"
          /\ testIdx' = 0
          /\ frozen' = IF frozen = -1 THEN -1 ELSE 0
          /\ now' = now
  /\ UNCHANGED <<variant, CONTROL_MODE, analogValue, pins, manualMode, lastUpdate, lastChange, tachCount,
                 lastCount, lastRPMTime, rpm, resumed, scen, lastCmd, sumDeltas>>

(***************************************************************************)
(* The control loop of part_000                                            *)
(***************************************************************************)
\* loop() of part_000, lines 91-109 up to the call of updateRPM()
loopP0 ==
  /\ variant = "p0"
  /\ pc = "loop"
  /\ IF UpdateDue(now, lastUpdate)
     THEN LET newSpeedLevel == IF CONTROL_MODE = CONTROL_MODE_DIGITAL
                                THEN readThermadorSpeed(pins)
                                ELSE readThermadorSpeedAnalog(analogValue)
          IN /\ lastUpdate' = now
             /\ IF newSpeedLevel # speedLevel /\ Debounced(now, lastChange, debounceDelay)
                THEN /\ speedLevel' = newSpeedLevel
                     /\ updateCloudlineSpeed(newSpeedLevel)
                     /\ lastChange' = now
                ELSE UNCHANGED <<speedLevel, currentSpeed, OCR1A, lastChange>>
             /\ pc' = "updateRPM"
     ELSE /\ pc' = "handleCommands"
          /\ UNCHANGED <<lastUpdate, speedLevel, currentSpeed, OCR1A, lastChange>>
  /\ lastCmd' = "none"
  /\ UNCHANGED <<variant, CONTROL_MODE, analogValue, now, pins, testIdx, manualMode, tachCount, lastCount,
                 lastRPMTime, rpm, frozen, resumed, scen, sumDeltas>>

\* the level an explicit speed command of part_000 sets, -1 for the other commands
SerialCommandLevel(cmd) ==
  CASE cmd = "off" -> 0
    [] cmd = "low" -> 1
    [] cmd = "medium" -> 2
    [] cmd = "high" -> 3
    [] OTHER -> -1

\* handleSerialCommands() of part_000, for the line read from Serial
handleSerialCommands(cmd) ==
  /\ variant = "p0"
  /\ pc = "handleCommands"
  /\ IF SerialCommandLevel(cmd) >= 0
     THEN /\ speedLevel' = SerialCommandLevel(cmd)
          /\ updateCloudlineSpeed(SerialCommandLevel(cmd))
          /\ pc' = "loop"
          /\ frozen' = SerialCommandLevel(cmd)
          /\ UNCHANGED testIdx
     ELSE IF cmd = "test"
     THEN /\ now <= MaxTestStart
          /\ pc' = "runTest"
          /\ testIdx' = 0
          /\ UNCHANGED <<speedLevel, currentSpeed, OCR1A, frozen>>
     ELSE /\ pc' = "loop"
          /\ UNCHANGED <<speedLevel, currentSpeed, OCR1A, testIdx, frozen>>
  /\ lastCmd' = IF SerialCommandLevel(cmd) >= 0 THEN cmd
                ELSE IF cmd = "test" THEN "none" ELSE lastCmd
  /\ UNCHANGED <<variant, CONTROL_MODE, analogValue, now, pins, manualMode, lastUpdate, lastChange, tachCount,
                 lastCount, lastRPMTime, rpm, resumed, scen, sumDeltas>>

\* the speeds runSpeedTest() of part_000 steps through
TestSpeeds == <<FAN_OFF, FAN_LOW, FAN_MEDIUM, FAN_HIGH>>

\* the delay() after each of them, in ms
TestDelays == <<2000, 3000, 3000, 3000>>

\* runSpeedTest() of part_000: one speed and its delay, or the return to OFF
runSpeedTest ==
  /\ variant = "p0"
  /\ pc = "runTest"
  /\ IF testIdx < Len(TestSpeeds)
     THEN /\ setCloudlineSpeed(TestSpeeds[testIdx + 1])
          /\ now' = UAdd(now, TestDelays[testIdx + 1])
          /\ testIdx' = testIdx + 1
          /\ UNCHANGED <<pc, speedLevel, frozen>>
     ELSE /\ setCloudlineSpeed(FAN_OFF)
          /\ speedLevel' = 0
          /\ pc' = "loop"
          /\ testIdx' = 0
          /\ frozen' = IF frozen = -1 THEN -1 ELSE 0
          /\ now' = now
  /\ UNCHANGED <<variant, CONTROL_MODE, analogValue, pins, manualMode, lastUpdate, lastChange, tachCount,
                 lastCount, lastRPMTime, rpm, resumed, scen, lastCmd, sumDeltas>>

(***************************************************************************)
(* The interrupt handler and the environment                               *)
(***************************************************************************)
\* tachISR(): runs on a falling edge of the tachometer line, between any two steps
tachISR ==
  /\ tachCount < MaxTach
  /\ tachCount' = UAdd(tachCount, 1)
  /\ UNCHANGED <<variant, CONTROL_MODE, analogValue, now, pins, pc, testIdx, speedLevel, currentSpeed, OCR1A,
                 manualMode, lastUpdate, lastChange, lastCount, lastRPMTime, rpm,
                 frozen, resumed, scen, lastCmd, sumDeltas>>

\* millis() advances by d between two loop iterations, up to limit
Elapse(d, limit) ==
  /\ pc = "loop"
  /\ now + d <= limit
  /\ now' = UAdd(now, d)
  /\ UNCHANGED <<variant, CONTROL_MODE, analogValue, pins, pc, testIdx, speedLevel, currentSpeed, OCR1A,
                 manualMode, lastUpdate, lastChange, tachCount, lastCount,
                 lastRPMTime, rpm, frozen, resumed, scen, lastCmd, sumDeltas>>

\* the range hood asserts the lines in p
setPins(p) ==
  /\ pc = "loop"
  /\ p # pins
  /\ pins' = p
  /\ UNCHANGED <<variant, CONTROL_MODE, analogValue, now, pc, testIdx, speedLevel, currentSpeed, OCR1A,
                 manualMode, lastUpdate, lastChange, tachCount, lastCount,
                 lastRPMTime, rpm, frozen, resumed, scen, lastCmd, sumDeltas>>

\* the voltage on THERMADOR_ANALOG_PIN changes; only the analog build reads the pin
setAnalog(a) ==
  /\ pc = "loop"
  /\ CONTROL_MODE = CONTROL_MODE_ANALOG
  /\ a # analogValue
  /\ analogValue' = a
  /\ UNCHANGED <<variant, CONTROL_MODE, now, pins, pc, testIdx, speedLevel,
                 currentSpeed, OCR1A, manualMode, lastUpdate, lastChange, tachCount,
                 lastCount, lastRPMTime, rpm, frozen, resumed, scen, lastCmd, sumDeltas>>

Next ==
  \/ loop
  \/ loopP0
  \/ updateRPM
  \/ updateRPMStore
  \/ \E cmd \in Commands : handleCommands(cmd)
  \/ \E cmd \in SerialCommands : handleSerialCommands(cmd)
  \/ runTest
  \/ runSpeedTest
  \/ tachISR
  \/ \E d \in Deltas : Elapse(d, MaxTime)
  \/ \E p \in InputPatterns(variant) : setPins(p)

\* the control loop under every command, with the clock advancing in tick-sized steps
Spec == Init /\ [][Next]_vars

\* SpecRpm: commands that enter and leave Manual, steady lines, window-sized clock steps
RpmCommands == {"none", "low", "auto"}

NextRpm ==
  \/ loop
  \/ loopP0
  \/ updateRPM
  \/ updateRPMStore
  \/ \E cmd \in RpmCommands : handleCommands(cmd)
  \/ \E cmd \in RpmCommands \cap SerialCommands : handleSerialCommands(cmd)
  \/ tachISR
  \/ \E d \in RpmDeltas : Elapse(d, MaxTimeRpm)

\* the RPM estimator over whole windows
SpecRpm == Init /\ [][NextRpm]_vars

\* SpecRate: the time between two tachometer edges
EdgePeriod == RPM_WINDOW_MS \div EdgesPerWindow

\* a pass over the inputs is due and loop() has not made it yet
TickPending ==
  /\ pc = "loop"
  /\ UpdateDue(now, lastUpdate)
  /\ variant = "ino" => ~manualMode

\* SpecRate: EdgePeriod ms pass and the edge runs tachISR(); loop() is far faster
\* than the clock, so a due pass over the inputs is made before the clock moves on
EdgeAfterPeriod ==
  /\ pc = "loop"
  /\ ~TickPending
  /\ now + EdgePeriod <= MaxTimeRate
  /\ now' = UAdd(now, EdgePeriod)
  /\ tachCount' = UAdd(tachCount, 1)
  /\ UNCHANGED <<variant, CONTROL_MODE, analogValue, pins, pc, testIdx, speedLevel, currentSpeed, OCR1A,
                 manualMode, lastUpdate, lastChange, lastCount, lastRPMTime, rpm,
                 frozen, resumed, scen, lastCmd, sumDeltas>>

NextRate ==
  \/ loop
  \/ loopP0
  \/ updateRPM
  \/ updateRPMStore
  \/ \E cmd \in RpmCommands : handleCommands(cmd)
  \/ \E cmd \in RpmCommands \cap SerialCommands : handleSerialCommands(cmd)
  \/ EdgeAfterPeriod

\* the RPM estimator under a constant edge rate
SpecRate == Init /\ [][NextRate]_vars

\* the level-to-duty mapping on its own, for the level l: speedLevel = l followed by
\* setFanSpeed(FAN_SPEEDS[speedLevel]) (.ino, lines 61-62), currentSpeedLevel = l
\* followed by updateCloudlineSpeed() (part_000, lines 99-100)
applyLevel(l) ==
  /\ pc = "loop"
  /\ speedLevel' = l
  /\ IF variant = "ino"
     THEN \E s \in IndexedSpeeds(l) : setFanSpeed(s)
     ELSE updateCloudlineSpeed(l)
  /\ UNCHANGED <<variant, CONTROL_MODE, analogValue, now, pins, pc, testIdx, manualMode,
                 lastUpdate, lastChange, tachCount, lastCount, lastRPMTime, rpm,
                 frozen, resumed, scen, lastCmd, sumDeltas>>

NextLevels == \E l \in LevelArgs(variant) : applyLevel(l)

\* the mapping applied to levels inside and outside the table; no input of the
\* sketches produces a level outside it
SpecLevels == Init /\ [][NextLevels]_vars

\* SpecSample: the .ino, and part_000 in either control mode, with the lines in any
\* combination and the analog pin at any reading
InitSample ==
  /\ variant \in {"ino", "p0"}
  /\ CONTROL_MODE \in (IF variant = "p0" THEN {CONTROL_MODE_DIGITAL, CONTROL_MODE_ANALOG}
                       ELSE {CONTROL_MODE_DIGITAL})
  /\ pins \in (IF CONTROL_MODE = CONTROL_MODE_DIGITAL THEN SUBSET Lines(variant) ELSE {{}})
  /\ analogValue \in (IF CONTROL_MODE = CONTROL_MODE_ANALOG THEN AnalogReadings ELSE {0})
  /\ setup

\* no commands; the clock stays below one RPM window, so updateRPM() never stores
NextSample ==
  \/ loop
  \/ loopP0
  \/ updateRPM
  \/ handleCommands("none")
  \/ handleSerialCommands("none")
  \/ \E d \in SampleDeltas : Elapse(d, MaxTime)
  \/ (CONTROL_MODE = CONTROL_MODE_DIGITAL /\ \E p \in SUBSET Lines(variant) : setPins(p))
  \/ \E a \in AnalogSteps(analogValue) : setAnalog(a)

\* the sampling of the inputs, every pass more than the dwell time after the last
SpecSample == InitSample /\ [][NextSample]_vars

\* SpecLive: no commands; the lines change while the clock is at most MaxPinTime and
\* are steady from then on
NextLive ==
  \/ loop
  \/ loopP0
  \/ updateRPM
  \/ handleCommands("none")
  \/ handleSerialCommands("none")
  \/ \E d \in Deltas : Elapse(d, MaxTimeLive)
  \/ (now <= MaxPinTime /\ \E p \in InputPatterns(variant) : setPins(p))

\* the processor keeps executing loop() and what it calls, and millis() keeps
\* advancing between iterations for as long as the clock of the model may run
FairLive ==
  /\ WF_vars(loop)
  /\ WF_vars(loopP0)
  /\ WF_vars(updateRPM)
  /\ WF_vars(handleCommands("none"))
  /\ WF_vars(handleSerialCommands("none"))
  /\ SF_vars(\E d \in Deltas : Elapse(d, MaxTimeLive))

\* Auto mode under steady lines, with the loop running and time advancing
SpecLive == Init /\ [][NextLive]_vars /\ FairLive

\* SpecWrap: either sketch after nearly a full cycle of millis() and of the pulse
\* counter, an iteration having just stored all three timestamps and the count
InitWrap ==
  /\ variant \in {"ino", "p0"}
  /\ CONTROL_MODE = CONTROL_MODE_DIGITAL
  /\ pins \in InputPatterns(variant)
  /\ analogValue = 0
  /\ now = ClockStart
  /\ pc = "loop"
  /\ testIdx = 0
  /\ speedLevel = 0
  /\ currentSpeed = 0
  /\ OCR1A = 0
  /\ manualMode = FALSE
  /\ lastUpdate = ClockStart
  /\ lastChange = ClockStart
  /\ tachCount = TachStart
  /\ lastCount = TachStart
  /\ lastRPMTime = ClockStart
  /\ rpm = 0
  /\ frozen = -1
  /\ resumed = FALSE
  /\ scen = -1
  /\ lastCmd = "none"
  /\ sumDeltas = TachStart

\* millis() advances by d between two loop iterations, through the wrap, up to limit
\* ms past it
ElapseWrap(d, limit) ==
  /\ pc = "loop"
  /\ Unwrapped(now) + d <= ULongMod + limit
  /\ now' = UAdd(now, d)
  /\ UNCHANGED <<variant, CONTROL_MODE, analogValue, pins, pc, testIdx, speedLevel,
                 currentSpeed, OCR1A, manualMode, lastUpdate, lastChange, tachCount,
                 lastCount, lastRPMTime, rpm, frozen, resumed, scen, lastCmd, sumDeltas>>

\* tachISR() on an edge that arrives between two loop iterations, through the wrap of
\* the counter. Edges during updateRPM() are left to Spec and SpecRpm: here the
\* counter changes in all of its bytes, and a read cut by the ISR is not modelled.
tachISRWrap ==
  /\ pc = "loop"
  /\ USub(tachCount, TachStart) < 2 * WrapEdges
  /\ tachCount' = UAdd(tachCount, 1)
  /\ UNCHANGED <<variant, CONTROL_MODE, analogValue, now, pins, pc, testIdx, speedLevel,
                 currentSpeed, OCR1A, manualMode, lastUpdate, lastChange, lastCount,
                 lastRPMTime, rpm, frozen, resumed, scen, lastCmd, sumDeltas>>

NextWrap ==
  \/ loop
  \/ loopP0
  \/ updateRPM
  \/ updateRPMStore
  \/ handleCommands("none")
  \/ handleSerialCommands("none")
  \/ tachISRWrap
  \/ \E d \in Deltas : ElapseWrap(d, MaxTimeWrap)
  \/ ElapseWrap(WindowDelta, MaxTimeWrapRpm)
  \/ \E p \in InputPatterns(variant) : setPins(p)

\* the control loop while millis() and the pulse counter wrap
SpecWrap == InitWrap /\ [][NextWrap]_vars

(***************************************************************************)
(* Properties                                                              *)
(***************************************************************************)
\* the level each explicit speed command stands for: off, low, medium, high, max
NamedLevel(cmd) ==
  CASE cmd = "off" -> 0
    [] cmd = "low" -> 1
    [] cmd = "medium" -> 2
    [] cmd = "high" -> 3
    [] cmd = "max" -> 4

\* the dwell time of the sketch that runs
DebounceInterval == IF variant = "ino" THEN DEBOUNCE_MS ELSE debounceDelay

\* C1: once an explicit speed command has been handled, and until the next pass of
\* loop(), the speed level, the normalized speed and the compare value are those of
\* the commanded level, whatever the lines read and whatever the dwell timer says.
C1_ManualOverride ==
  lastCmd # "none" =>
    /\ speedLevel = NamedLevel(lastCmd)
    /\ currentSpeed = SpeedOf(variant, NamedLevel(lastCmd))
    /\ OCR1A = DutyOf(SpeedOf(variant, NamedLevel(lastCmd)))

\* C1 witness: "high" was handled while the lines read another level and the dwell
\* time since an earlier accepted change had not passed.
C1_Witness ==
  /\ variant = "ino"
  /\ lastCmd = "high"
  /\ RawLevel # 3
  /\ lastChange > 0
  /\ ~Debounced(now, lastChange, DEBOUNCE_MS)
  /\ speedLevel = 3
  /\ OCR1A = 256

\* C2: while an operator-issued level is in force (a speed command was handled and
\* no auto command since), the speed level equals it at every point of the loop
\* outside a running test, in both sketches.
C2_ManualFreeze ==
  (frozen # -1 /\ pc # "runTest") => speedLevel = frozen

\* C3: after an auto command ended Manual, the pass of loop() that first samples a
\* level different from the frozen one adopts it, whatever the time since lastChange.
C3_AutoResumption ==
  [][(/\ variant = "ino"
      /\ resumed
      /\ pc = "loop"
      /\ pc' = "updateRPM"
      /\ readSpeedLevel(pins) # speedLevel)
     => speedLevel' = readSpeedLevel(pins)]_vars

\* C4: a pass of loop() changes the speed level only to the sampled level, only if
\* that differs from the current level and more than the dwell time has passed since
\* lastChange, and it then records the time in lastChange; nothing else writes
\* lastChange. Two changes made by the loop are therefore more than the dwell time apart.
C4_DebounceRateLimit ==
  [][/\ (pc = "loop" /\ speedLevel' # speedLevel) =>
          /\ speedLevel' = RawLevel
          /\ USub(now, lastChange) > DebounceInterval
          /\ lastChange' = now
     /\ (lastChange' # lastChange) => (pc = "loop" /\ speedLevel' # speedLevel)]_vars

\* C4 witness: the loop has just rejected a differing sample because the dwell time
\* since an earlier accepted change had not passed.
C4_Witness ==
  /\ pc = "updateRPM"
  /\ lastUpdate = now
  /\ RawLevel # speedLevel
  /\ lastChange > 0
  /\ USub(now, lastChange) <= DebounceInterval
  /\ lastCmd = "none"
  /\ frozen = -1

\* the effective levels the scenario is said to give: off, off, off, low, low, medium
ScenarioSustained == <<0, 0, 0, 1, 1, 2>>

\* the effective levels the loop gives: off, off, low, low, low, medium
ScenarioAdopted == <<0, 0, 1, 1, 1, 2>>

\* C5 as stated: after the k-th sample of off, off, low, low, low, medium from
\* power-up the level is the k-th of off, off, off, low, low, medium.
C5_SustainedScenario ==
  scen >= 1 => speedLevel = ScenarioSustained[scen]

\* C5 amended: after the k-th sample of off, off, low, low, low, medium from power-up
\* the level is the k-th of off, off, low, low, low, medium: each new level is adopted
\* by the first sample that shows it.
C5_AdoptedScenario ==
  scen >= 1 => speedLevel = ScenarioAdopted[scen]

\* C5 witness: the six samples were taken 51 ms apart and the level is medium.
C5_Witness ==
  /\ scen = 6
  /\ now = 6 * (UPDATE_MS + 1)
  /\ lastUpdate = now
  /\ speedLevel = 2
  /\ OCR1A = 192

\* C6: the compare value is 0 or lies in [MinDutyPct% of ICR1, ICR1] = [64, 320],
\* and it is 0 exactly when the normalized speed is 0.
C6_MinimumDutyFloor ==
  /\ OCR1A = 0 \/ (OCR1A * 100 >= MinDutyPct * ICR1 /\ OCR1A <= ICR1)
  /\ OCR1A = 0 <=> currentSpeed = 0
  /\ OCR1A \notin 1..63

\* C6 witness: a test is running and drives the lowest non-zero speed.
C6_Witness ==
  /\ pc = "runTest"
  /\ testIdx = 2
  /\ currentSpeed > 0
  /\ OCR1A \in {128, 140}

\* v is the truncation of ICR1 * (0.20 + 0.80 * pct / 100)
IsTruncatedDuty(v, pct) ==
  /\ 10000 * v <= ICR1 * (MinDutyPct * 100 + pct * (100 - MinDutyPct))
  /\ ICR1 * (MinDutyPct * 100 + pct * (100 - MinDutyPct)) < 10000 * (v + 1)

\* the duty a sketch emits for a level
LevelDuty(v, level) == DutyOf(SpeedOf(v, level))

\* C7: outside a test, the duty in the register is at least the duty of every lower
\* level of the sketch's table and greater than that of every lower level above off,
\* and for a level above off it is the truncation of ICR1 * (0.20 + 0.80 * speed).
C7_DutyMonotone ==
  pc # "runTest" =>
    /\ \A l1 \in 0..MaxLevel(variant) :
         l1 < speedLevel => /\ OCR1A >= LevelDuty(variant, l1)
                            /\ l1 > 0 => OCR1A > LevelDuty(variant, l1)
    /\ speedLevel > 0 => IsTruncatedDuty(OCR1A, SpeedOf(variant, speedLevel))

\* C7 witness: part_000 at level 2 emits 217, the truncation of 217.6, above the 140
\* of level 1.
C7_Witness ==
  /\ variant = "p0"
  /\ speedLevel = 2
  /\ pc = "loop"
  /\ OCR1A = 217
  /\ LevelDuty(variant, 1) = 140

\* C8: outside the two steps of updateRPM(), the window marker lastCount equals the
\* initial count 0 plus the sum of the deltas used for the estimates so far.
C8_NoPulseLost ==
  pc # "rpmStore" => lastCount = sumDeltas

\* C9: a call of updateRPM() with at least one window elapsed sets the estimate to
\* (tachCount - lastCount) * 60 / 2 and then both markers to the current count and
\* time; with less than one window elapsed it leaves all three unchanged; and no
\* other step changes the estimate or the markers.
C9_RpmStepFunction ==
  [][/\ (pc = "updateRPM" /\ pc' # pc) =>
          IF USub(now, lastRPMTime) >= RPM_WINDOW_MS
          THEN /\ 2 * rpm' = 60 * USub(tachCount, lastCount)
               /\ pc' = "rpmStore"
          ELSE /\ rpm' = rpm
               /\ pc' = "handleCommands"
     /\ (pc = "rpmStore" /\ pc' # pc) =>
          /\ lastCount' = tachCount
          /\ lastRPMTime' = now
          /\ pc' = "handleCommands"
     /\ (rpm' # rpm) => (pc = "updateRPM" /\ USub(now, lastRPMTime) >= RPM_WINDOW_MS)
     /\ (lastCount' # lastCount \/ lastRPMTime' # lastRPMTime) => pc = "rpmStore"]_vars

\* C9 witness: a window with one pulse has been closed, after an earlier call had
\* found less than one window elapsed.
C9_Witness ==
  /\ pc = "handleCommands"
  /\ rpm = 30
  /\ lastCount = 1
  /\ lastRPMTime = now
  /\ now >= RPM_WINDOW_MS
  /\ lastUpdate = now

\* C10: with EdgesPerWindow edges per window, every estimate updateRPM() computes is
\* EdgesPerWindow * 60 / 2 to within the count of one whole window.
C10_RpmAccuracy ==
  pc = "rpmStore" =>
    /\ rpm <= 30 * EdgesPerWindow + 30 * EdgesPerWindow
    /\ rpm >= 30 * EdgesPerWindow - 30 * EdgesPerWindow

\* C11: a pass of loop() made when more than UPDATE_MS have passed since the last pass
\* over the inputs and at least one window has elapsed since the last estimate goes on
\* to updateRPM(), in Auto and in Manual alike.
C11_RpmEveryTick ==
  [][(/\ pc = "loop"
      /\ pc' # pc
      /\ UpdateDue(now, lastUpdate)
      /\ WindowElapsed(now, lastRPMTime))
     => pc' = "updateRPM"]_vars

\* C12: the mode becomes Manual, or stays Manual, whenever an explicit speed command is
\* handled, and becomes Auto whenever an auto command ends an operator-issued level;
\* it changes to Manual only by a speed command and to Auto only by an auto command.
C12_ModeTransitions ==
  [][/\ (pc = "handleCommands" /\ lastCmd' # "none") => manualMode'
     /\ (pc = "handleCommands" /\ frozen # -1 /\ frozen' = -1) => ~manualMode'
     /\ (~manualMode /\ manualMode') => (pc = "handleCommands" /\ lastCmd' # "none")
     /\ (manualMode /\ ~manualMode') => (pc = "handleCommands" /\ frozen' = -1)]_vars

\* C14: the speed level is always one of the levels 0..N of the sketch (N = 4 in the
\* .ino, 3 in part_000), and so is the level the lines give, so every index into the
\* level-to-speed table is inside it; a running test of the .ino indexes it by 0..4.
C14_LevelInRange ==
  /\ speedLevel \in 0..MaxLevel(variant)
  /\ RawLevel \in 0..MaxLevel(variant)
  /\ (variant = "ino" /\ pc = "runTest" /\ testIdx <= 4) => testIdx \in DOMAIN FAN_SPEEDS

\* C14 witness: the loop has just adopted the top level from the lines, all asserted.
C14_Witness ==
  /\ pc = "updateRPM"
  /\ pins = Lines(variant)
  /\ speedLevel = MaxLevel(variant)
  /\ lastChange = now
  /\ now > 0
  /\ frozen = -1

\* the highest line of a set of asserted lines, 0 for none
HighestLine(p) == IF p = {} THEN 0 ELSE CHOOSE l \in p : \A m \in p : m <= l

\* C13: with the lines read digitally, whatever combination of them is asserted, the
\* level they give is the number of the highest asserted line, 0 when none is, and a
\* pass over the inputs made more than the dwell time after the last change adopts it.
C13_InputPriority ==
  CONTROL_MODE = CONTROL_MODE_DIGITAL =>
    /\ RawLevel = HighestLine(pins)
    /\ pc = "updateRPM" => speedLevel = HighestLine(pins)

\* C13 witness: the .ino has just sampled lines 1 and 3 asserted together and runs at 3.
C13_Witness ==
  /\ variant = "ino"
  /\ pc = "updateRPM"
  /\ pins = {1, 3}
  /\ speedLevel = 3
  /\ lastChange = now
  /\ OCR1A = 256

\* C17: in analog mode the level of a reading is 0 below 100, 1 in [100, 300), 2 in
\* [300, 600) and 3 from 600 up, so it lies in 0..3, readings below 0 give 0 and
\* readings above ADC_MAX give 3; the reading one count lower gives no higher level
\* and the reading one count higher no lower level, at every reading, so the level is
\* non-decreasing in the reading; and a pass over the inputs made more than the dwell time
\* after the last change adopts that level.
C17_AnalogSampling ==
  CONTROL_MODE = CONTROL_MODE_ANALOG =>
    /\ analogValue < 100 => RawLevel = 0
    /\ (analogValue >= 100 /\ analogValue < 300) => RawLevel = 1
    /\ (analogValue >= 300 /\ analogValue < 600) => RawLevel = 2
    /\ analogValue >= 600 => RawLevel = 3
    /\ RawLevel \in 0..3
    /\ analogValue < 0 => RawLevel = 0
    /\ analogValue > ADC_MAX => RawLevel = 3
    /\ \A b \in AnalogSteps(analogValue) :
         /\ b <= analogValue => readThermadorSpeedAnalog(b) <= RawLevel
         /\ b >= analogValue => readThermadorSpeedAnalog(b) >= RawLevel
    /\ pc = "updateRPM" => speedLevel = RawLevel

\* C17 witness: the reading stands at the threshold 300 and the pass over the inputs
\* has just adopted level 2.
C17_Witness ==
  /\ CONTROL_MODE = CONTROL_MODE_ANALOG
  /\ pc = "updateRPM"
  /\ analogValue = 300
  /\ speedLevel = 2
  /\ lastChange = now
  /\ now > DEBOUNCE_MS + 1
  /\ OCR1A = 217

C16_AutoFollowsInput ==
  \A L \in 0..4 :
    <>[](RawLevel = L) =>
      <>[](speedLevel = L /\ OCR1A = LevelDuty(variant, speedLevel))

\* C16 witness: the lines went to level 2 while the dwell time was running, stayed
\* there, and a pass of the loop made after the lines became steady has adopted it.
C16_Witness ==
  /\ pc = "updateRPM"
  /\ RawLevel = 2
  /\ speedLevel = 2
  /\ lastChange = now
  /\ now > MaxPinTime + DebounceInterval
  /\ OCR1A = LevelDuty(variant, 2)

\* C18: a step that changes the pulse counter adds exactly 1 to it (modulo the width
\* of unsigned long) and changes nothing else: not the level, the mode, the speed, the
\* compare value, the timestamps, the estimate, the window markers or the position of
\* the control loop. So no step of the control loop writes the counter.
C18_TachFrame ==
  [][(tachCount' # tachCount) =>
       /\ tachCount' = UAdd(tachCount, 1)
       /\ UNCHANGED <<speedLevel, manualMode, currentSpeed, OCR1A, lastChange,
                      lastUpdate, rpm, lastCount, lastRPMTime, pc, testIdx, now>>]_vars

\* C18 witness: an edge arrived between the two reads of the counter in updateRPM():
\* the estimate was computed from one pulse and the counter now holds two.
C18_Witness ==
  /\ pc = "rpmStore"
  /\ rpm = 30
  /\ lastCount = 0
  /\ tachCount = 2

\* a test has completed: only the delay() calls of a test take the clock past MaxTime
TestCompleted == pc # "runTest" /\ now > MaxTime

\* C19: between two iterations of loop() the normalized speed is the table entry of
\* the speed level and the compare value is the duty of that entry.
C19_LevelDutyConsistent ==
  pc = "loop" =>
    /\ currentSpeed = SpeedOf(variant, speedLevel)
    /\ OCR1A = DutyOf(SpeedOf(variant, speedLevel))

\* C19 witness: a test run in Manual has completed, no pass over
\* the inputs was made since, and level, speed and compare value are all 0.
C19_Witness ==
  /\ pc = "loop"
  /\ TestCompleted
  /\ manualMode
  /\ frozen = 0
  /\ lastUpdate = 0
  /\ speedLevel = 0
  /\ currentSpeed = 0
  /\ OCR1A = 0

\* C20: the step that completes a test leaves the level, the speed and the compare
\* value at 0; no step of a test, nor the command that starts it, changes the mode or
\* lastChange; in Manual with the fan off, the level and the compare value stay 0
\* through every step but a speed command and a test; and in Auto a pass over the
\* inputs adopts the level of the lines exactly when it differs from the current one
\* and more than the dwell time has passed since lastChange.
C20_TestOutcome ==
  [][/\ (pc = "runTest" /\ pc' = "loop") =>
          (speedLevel' = 0 /\ currentSpeed' = 0 /\ OCR1A' = 0)
     /\ (pc = "runTest" \/ pc' = "runTest") => UNCHANGED <<manualMode, lastChange>>
     /\ (manualMode /\ speedLevel = 0 /\ OCR1A = 0 /\ pc # "runTest"
         /\ ~(pc = "handleCommands" /\ lastCmd' # "none")) =>
          (speedLevel' = 0 /\ OCR1A' = 0)
     /\ (~manualMode /\ pc = "loop" /\ pc' = "updateRPM") =>
          speedLevel' = (IF RawLevel # speedLevel /\ USub(now, lastChange) > DebounceInterval
                         THEN RawLevel ELSE speedLevel)]_vars

\* C20 witness: a test has completed in Auto with the lines at a level above off, and
\* the next pass over the inputs has just adopted that level again.
C20_Witness ==
  /\ variant = "ino"
  /\ TestCompleted
  /\ ~manualMode
  /\ pc = "updateRPM"
  /\ lastChange = now
  /\ speedLevel = RawLevel
  /\ speedLevel > 0
  /\ OCR1A = LevelDuty(variant, speedLevel)

\* C21: through the wrap of the clock and of the pulse counter, each elapsed-time
\* test of the loop gives what the true elapsed time gives, the pulse delta is the
\* true number of pulses, and the estimate updateRPM() computes is 30 times it.
C21_WraparoundSafe ==
  /\ UpdateDue(now, lastUpdate) <=> Unwrapped(now) - Unwrapped(lastUpdate) > UPDATE_MS
  /\ Debounced(now, lastChange, DebounceInterval)
       <=> Unwrapped(now) - Unwrapped(lastChange) > DebounceInterval
  /\ WindowElapsed(now, lastRPMTime)
       <=> Unwrapped(now) - Unwrapped(lastRPMTime) >= RPM_WINDOW_MS
  /\ USub(tachCount, lastCount) = Unwrapped(tachCount) - Unwrapped(lastCount)
  /\ pc = "rpmStore" => 2 * rpm = 60 * (Unwrapped(tachCount) - Unwrapped(lastCount))

\* C21 witness: updateRPM() has computed an estimate from a window that began before
\* the clock wrapped and ended after it, with a count stored before the counter
\* wrapped and a counter read after it, on a tick that also adopted a new level.
C21_Witness ==
  /\ pc = "rpmStore"
  /\ now < ULongMod \div 2
  /\ lastRPMTime = ClockStart
  /\ lastCount = TachStart
  /\ tachCount = WrapEdges
  /\ rpm = 60 * WrapEdges
  /\ lastChange = now
  /\ speedLevel > 0

====
